---- MODULE Spec2Model ----
(***************************************************************************)
(* Model of src/og.js: two variants of one batch uploader.                 *)
(*   "sdk"    (lines 1-189):   writes the image to a temporary file and    *)
(*                             hands the path to the storage SDK.          *)
(*   "manual" (lines 191-371): hashes the image, POSTs it to the indexer   *)
(*                             and sends a hand-built transaction.         *)
(* Every await of the code is one action; the external call it waits for   *)
(* either returns or throws, chosen by the environment.                    *)
(***************************************************************************)
EXTENDS Integers, Sequences, FiniteSets, TLC

\* ---------------------------------------------------------------- bounds
MaxUploads == 3        \* largest UPLOADS_TO_RUN the environment configures
MaxGasEstimate == 2    \* largest value provider.estimateGas returns
DigestSpace == 8       \* number of values of the modelled digest (the code's has 2^256)

\* ------------------------------------------------------ program constants
DefaultUploads == 1
DefaultDelay == 5000
FallbackGasLimit == 300000
StatusSuccess == 1

Variants == {"sdk", "manual"}

\* ------------------------------------------------- environment variables
\* A value of process.env: undefined, or a string (a sequence of characters).
Undefined == [defined |-> FALSE, text |-> <<>>]
Str(s) == [defined |-> TRUE, text |-> s]

\* JavaScript truthiness of an environment value: undefined and "" are falsy.
Truthy(v) == v.defined /\ Len(v.text) > 0

Digits == <<"0", "1", "2", "3", "4", "5", "6", "7", "8", "9">>

DigitValue(c) == (CHOOSE d \in 1..10 : Digits[d] = c) - 1

IsDigit(c) == \E d \in 1..10 : Digits[d] = c

RECURSIVE DecDigits(_)
DecDigits(n) == IF n < 10 THEN <<Digits[n + 1]>>
                ELSE Append(DecDigits(n \div 10), Digits[(n % 10) + 1])

\* The decimal text of an integer, as a .env file would hold it.
DecString(n) == IF n < 0 THEN <<"-">> \o DecDigits(-n) ELSE DecDigits(n)

\* String(v): what parseInt converts its argument to.
ToStringJS(v) == IF v.defined THEN v.text
                 ELSE <<"u", "n", "d", "e", "f", "i", "n", "e", "d">>

RECURSIVE DigitPrefixValue(_, _, _)
DigitPrefixValue(s, k, acc) ==
    IF k > Len(s) \/ ~IsDigit(s[k]) THEN acc
    ELSE DigitPrefixValue(s, k + 1, acc * 10 + DigitValue(s[k]))

\* parseInt(v, 10): an optional sign, then the longest prefix of digits; NaN
\* when there is no digit.
ParseInt(v) ==
    LET s == ToStringJS(v)
        neg == Len(s) > 0 /\ s[1] = "-"
        first == IF Len(s) > 0 /\ s[1] \in {"-", "+"} THEN 2 ELSE 1
    IN  IF first > Len(s) \/ ~IsDigit(s[first])
        THEN [nan |-> TRUE, val |-> 0]
        ELSE [nan |-> FALSE,
              val |-> IF neg THEN -DigitPrefixValue(s, first, 0)
                      ELSE DigitPrefixValue(s, first, 0)]

\* x || d on a number: NaN and 0 are falsy.
OrDefault(x, d) == IF x.nan \/ x.val = 0 THEN d ELSE x.val

UploadsCountOf(e) == OrDefault(ParseInt(e.UPLOADS_TO_RUN), DefaultUploads)

DelayMillisecondsOf(e) == OrDefault(ParseInt(e.DELAY_MS), DefaultDelay)

\* Faulty variant: INDEXER_URL is not checked.
ConfigMissing_NoIndexer(v, e) ==
    \/ ~Truthy(e.PRIVATE_KEY)
    \/ ~Truthy(e.RPC_URL)
    \/ (v = "manual" /\ ~Truthy(e.CONTRACT_ADDRESS))

\* The configuration check: CONTRACT_ADDRESS is required by the manual variant only.
ConfigMissing(v, e) ==
    \/ ~Truthy(e.PRIVATE_KEY)
    \/ ~Truthy(e.RPC_URL)
    \/ ~Truthy(e.INDEXER_URL)
    \/ (v = "manual" /\ ~Truthy(e.CONTRACT_ADDRESS))

KeyValues == {Undefined, Str(<<>>), Str(<<"k">>)}

UploadsInputs == {Undefined, Str(<<"x">>)} \cup {Str(DecString(n)) : n \in -1..MaxUploads}

DelayInputs == {Undefined, Str(DecString(0)), Str(DecString(20))}

\* The sdk variant never reads CONTRACT_ADDRESS: it stays undefined there.
EnvsOf(v) == [PRIVATE_KEY : KeyValues, RPC_URL : KeyValues, INDEXER_URL : KeyValues,
              CONTRACT_ADDRESS : IF v = "manual" THEN KeyValues ELSE {Undefined},
              UPLOADS_TO_RUN : UploadsInputs, DELAY_MS : DelayInputs]

\* ---------------------------------------------------------------- payloads
\* The images the image source may return: byte sequences.
Payloads == {<<7>>, <<7, 0>>}

RECURSIVE Absorb(_, _, _)
Absorb(buf, k, h) ==
    IF k > Len(buf) THEN h
    ELSE Absorb(buf, k + 1, (h * 5 + buf[k] + 3) % DigestSpace)

\* crypto.createHash('sha256').update(buf).digest(): a digest of the bytes and
\* of their number, here with DigestSpace values.
Sha256(buf) == (Absorb(buf, 1, 1) * 3 + Len(buf)) % DigestSpace

HexDigits == <<"0", "1", "2", "3", "4", "5", "6", "7", "8", "9",
               "a", "b", "c", "d", "e", "f">>

HexLen == IF DigestSpace <= 16 THEN 1 ELSE 2

RECURSIVE HexOf(_, _)
HexOf(n, width) ==
    IF width = 0 THEN <<>>
    ELSE Append(HexOf(n \div 16, width - 1), HexDigits[(n % 16) + 1])

\* .digest('hex'): fixed width, lower case.
DigestHex(d) == HexOf(d, HexLen)

\* ------------------------------------------------------------------- state
VARIABLES
    variant,        \* which of the two scripts runs
    env,            \* process.env, read once at startup
    pc,             \* the statement the script is at
    exitCode,       \* the process exit code; -1 while the process runs
    i,              \* the loop counter of main
    successful,     \* let successful
    failed,         \* let failed
    tempFilePath,   \* sdk: the iteration's temp path, <<>> for ''
    imageBuffer,    \* the fetched payload, <<>> outside an iteration
    data,           \* manual: the content-hash field of the call data, -1 when unset
    gasLimit,       \* manual: -1 when unset
    gasEstimate,    \* manual: what estimateGas returned, -1 when unset or thrown
    tx,             \* the transaction awaited: "none", "null" or "tx"
    disk,           \* the temp files that exist in GENERATED_DIR
    preflight,      \* what the pre-flight calls of main returned
    trace,          \* per iteration: what was called and how it ended
    posted,         \* the <<payload, root>> pairs POSTed to the indexer
    summary         \* the summary main logs

vars == <<variant, env, pc, exitCode, i, successful, failed, tempFilePath,
          imageBuffer, data, gasLimit, gasEstimate, tx, disk, preflight, trace,
          posted, summary>>

uploadsCount == UploadsCountOf(env)

delayMilliseconds == DelayMillisecondsOf(env)

Iterations == 1..MaxUploads

\* The status of a mined transaction's receipt: 0 reverted, 1 success.
Statuses == {0, 1}

NoTrace == [attempted |-> FALSE, fetched |-> FALSE, postOk |-> FALSE, sendCalls |-> 0,
            fault |-> FALSE, status |-> -1, outcome |-> "none",
            assigned |-> FALSE, created |-> FALSE, unlinks |-> 0, unlinkFailed |-> FALSE,
            sdkErr |-> FALSE, posts |-> 0, sends |-> 0, awaits |-> 0,
            waits |-> 0, waitMs |-> -1]

NoSummary == [reported |-> FALSE, total |-> 0, successful |-> 0, failed |-> 0]

NoPreflight == [network |-> "none", balance |-> "none"]

\* The state before the first statement of the script runs.
Blank ==
    /\ exitCode = -1
    /\ i = 0
    /\ successful = 0
    /\ failed = 0
    /\ tempFilePath = <<>>
    /\ imageBuffer = <<>>
    /\ data = -1
    /\ gasLimit = -1
    /\ gasEstimate = -1
    /\ tx = "none"
    /\ disk = {}
    /\ preflight = NoPreflight
    /\ trace = [k \in Iterations |-> NoTrace]
    /\ posted = {}
    /\ summary = NoSummary

\* The first await of main.
MainEntry(v) == IF v = "sdk" THEN "getNetwork" ELSE "getBalance"

\* Process start.
Init ==
    /\ variant \in Variants
    /\ env \in EnvsOf(variant)
    /\ pc = "start"
    /\ Blank

\* The call of main(), with the module's top-level statements behind it.
InitMain ==
    /\ variant \in Variants
    /\ env \in {e \in EnvsOf(variant) : ~ConfigMissing(variant, e)}
    /\ pc = MainEntry(variant)
    /\ Blank

cfgVars == <<variant, env>>
countVars == <<successful, failed>>
localVars == <<tempFilePath, imageBuffer, data, gasLimit, gasEstimate, tx>>
histVars == <<preflight, trace, posted, summary>>

Bump(t, field) == [t EXCEPT ![i][field] = @ + 1]

Set(t, field, value) == [t EXCEPT ![i][field] = value]

\* ------------------------------------------------------ top-level statements
\* if (!PRIVATE_KEY || ...) process.exit(1); the manual variant then calls main.
ValidateConfig ==
    /\ pc = "start"
    /\ IF ConfigMissing(variant, env)
       THEN /\ exitCode' = 1
            /\ pc' = "exited"
       ELSE /\ exitCode' = exitCode
            /\ pc' = IF variant = "sdk" THEN "setup" ELSE MainEntry(variant)
    /\ UNCHANGED <<cfgVars, i, countVars, localVars, disk, histVars>>

\* What `import { promises as fs } from 'fs'` binds: the promise API, which has
\* neither existsSync nor mkdirSync.
FsPromisesApi == {"access", "mkdir", "readFile", "writeFile", "unlink", "stat"}

\* if (!fs.existsSync(GENERATED_DIR)) fs.mkdirSync(GENERATED_DIR): calling a
\* missing method throws a TypeError no handler catches; node exits with code 1.
SetupGeneratedDir ==
    /\ pc = "setup"
    /\ IF "existsSync" \in FsPromisesApi
       THEN /\ exitCode' = exitCode
            /\ pc' = MainEntry(variant)
       ELSE /\ exitCode' = 1
            /\ pc' = "exited"
    /\ UNCHANGED <<cfgVars, i, countVars, localVars, disk, histVars>>

\* ---------------------------------------------------------------- main
\* await provider.getNetwork() (sdk variant only).
GetNetwork ==
    /\ pc = "getNetwork"
    /\ \E ok \in BOOLEAN :
        /\ preflight' = [preflight EXCEPT !.network = IF ok THEN "ok" ELSE "failed"]
        /\ pc' = IF ok THEN "getBalance" ELSE "topCatch"
    /\ UNCHANGED <<cfgVars, exitCode, i, countVars, localVars, disk, trace, posted, summary>>

\* Faulty variant: a failed balance check is logged and the loop starts anyway.
GetBalance_Swallow ==
    /\ pc = "getBalance"
    /\ \E ok \in BOOLEAN :
        preflight' = [preflight EXCEPT !.balance = IF ok THEN "ok" ELSE "failed"]
    /\ pc' = "loopTest"
    /\ i' = 1
    /\ successful' = 0
    /\ failed' = 0
    /\ UNCHANGED <<cfgVars, exitCode, localVars, disk, trace, posted, summary>>

\* await provider.getBalance(...); then successful = 0, failed = 0, i = 1.
GetBalance ==
    /\ pc = "getBalance"
    /\ \E ok \in BOOLEAN :
        /\ preflight' = [preflight EXCEPT !.balance = IF ok THEN "ok" ELSE "failed"]
        /\ pc' = IF ok THEN "loopTest" ELSE "topCatch"
        /\ i' = IF ok THEN 1 ELSE i
    /\ successful' = 0
    /\ failed' = 0
    /\ UNCHANGED <<cfgVars, exitCode, localVars, disk, trace, posted, summary>>

\* for (...; i <= uploadsCount; ...): enter the body (tempFilePath = '') or leave.
LoopTest ==
    /\ pc = "loopTest"
    /\ IF i <= uploadsCount
       THEN /\ pc' = "fetch"
            /\ trace' = Set(trace, "attempted", TRUE)
       ELSE /\ pc' = "summary"
            /\ trace' = trace
    /\ tempFilePath' = <<>>
    /\ UNCHANGED <<cfgVars, exitCode, i, countVars, imageBuffer, data, gasLimit,
                   gasEstimate, tx, disk, preflight, posted, summary>>

\* Faulty variant: the cleanup is deferred; the loop does not wait for it.
AfterTry_SkipFinally(v) == "delayTest"

\* The statement after the try block of the loop body.
AfterTry(v) == IF v = "sdk" THEN "finally" ELSE "delayTest"

\* await fetchRandomImage(): rethrows a failed GET. On success the sdk variant
\* names the temp file (random, so new: the iteration number stands for it), the
\* manual variant enters uploadAndSubmitTransaction.
FetchRandomImage ==
    /\ pc = "fetch"
    /\ \/ \E buf \in Payloads :
            /\ imageBuffer' = buf
            /\ tempFilePath' = IF variant = "sdk" THEN <<i>> ELSE tempFilePath
            /\ trace' = IF variant = "sdk"
                        THEN Set(Set(trace, "fetched", TRUE), "assigned", TRUE)
                        ELSE Set(trace, "fetched", TRUE)
            /\ pc' = IF variant = "sdk" THEN "writeFile" ELSE "post"
       \/ /\ trace' = Set(trace, "fault", TRUE)
          /\ pc' = "catch"
          /\ UNCHANGED <<imageBuffer, tempFilePath>>
    /\ UNCHANGED <<cfgVars, exitCode, i, countVars, data, gasLimit, gasEstimate, tx,
                   disk, preflight, posted, summary>>

\* Faulty variant: the digest is salted with the loop counter.
RootForIndexer_Salted(buf) == <<"0", "x">> \o DigestHex(Sha256(buf \o <<i>>))

\* '0x' + hex digest of the payload: the root sent to the indexer.
RootForIndexer(buf) == <<"0", "x">> \o DigestHex(Sha256(buf))

\* Leaving uploadFileWithSDK / uploadAndSubmitTransaction and the try block,
\* their locals go out of scope. (The sdk variant's imageBuffer is dropped at its
\* last read, the write.) While the manual variant waits for the receipt, data
\* and gasLimit are the parameters of the transaction that was sent.
DropLocals ==
    /\ imageBuffer' = <<>>
    /\ data' = -1
    /\ gasLimit' = -1
    /\ gasEstimate' = -1
    /\ tx' = "none"

\* sdk: await fs.writeFile(tempFilePath, imageBuffer). A failed write may or may
\* not have created the file.
WriteTempFile ==
    /\ pc = "writeFile"
    /\ \/ /\ disk' = disk \cup {tempFilePath}
          /\ trace' = Set(trace, "created", TRUE)
          /\ pc' = "sdkUpload"
          /\ imageBuffer' = <<>>
          /\ UNCHANGED <<data, gasLimit, gasEstimate, tx>>
       \/ \E partial \in BOOLEAN :
            /\ disk' = IF partial THEN disk \cup {tempFilePath} ELSE disk
            /\ trace' = Set(Set(trace, "created", partial), "fault", TRUE)
            /\ pc' = "catch"
            /\ DropLocals
    /\ UNCHANGED <<cfgVars, exitCode, i, countVars, tempFilePath, preflight, posted, summary>>

\* What indexer.upload may resolve to: [tx, err].
SdkResults == {[tx |-> "tx", err |-> FALSE],
               [tx |-> "null", err |-> TRUE],
               [tx |-> "tx", err |-> TRUE]}

\* Faulty variant: the returned err is not looked at.
ErrorReported_Ignored(r) == FALSE

\* if (err) throw ...
ErrorReported(r) == r.err

\* sdk: new ZgFile(filePath); await indexer.upload(file, RPC_URL, wallet); the
\* err check; tx.hash (a TypeError on a null tx).
SdkUpload ==
    /\ pc = "sdkUpload"
    /\ \/ /\ trace' = Set(trace, "fault", TRUE)
          /\ pc' = "catch"
          /\ DropLocals
       \/ \E r \in SdkResults :
            LET t1 == Set(trace, "sdkErr", r.err)
                t2 == IF r.tx = "tx" THEN Bump(t1, "sends") ELSE t1
            IN  IF ErrorReported(r) \/ r.tx = "null"
                THEN /\ trace' = Set(t2, "fault", TRUE)
                     /\ pc' = "catch"
                     /\ DropLocals
                ELSE /\ trace' = t2
                     /\ pc' = "wait"
                     /\ tx' = r.tx
                     /\ UNCHANGED <<imageBuffer, data, gasLimit, gasEstimate>>
    /\ UNCHANGED <<cfgVars, exitCode, i, countVars, tempFilePath, disk, preflight,
                   posted, summary>>

\* Faulty variant: a failed POST is tried again inside the iteration.
PostSegment_Retry ==
    /\ pc = "post"
    /\ posted' = posted \cup {<<imageBuffer, RootForIndexer(imageBuffer)>>}
    /\ \/ \E contentHash \in 0..(DigestSpace - 1) :
            /\ data' = contentHash
            /\ trace' = Set(Bump(trace, "posts"), "postOk", TRUE)
            /\ pc' = "estimateGas"
       \/ /\ trace' = Bump(trace, "posts")
          /\ pc' = "post"
          /\ data' = data
    /\ UNCHANGED <<cfgVars, exitCode, i, countVars, tempFilePath, imageBuffer, gasLimit,
                   gasEstimate, tx, disk, preflight, summary>>

\* manual: rootForIndexer, await axios.post(.../file/segment, {root, ...}); then
\* contentHash = crypto.randomBytes(32) and the call data.
PostSegment ==
    /\ pc = "post"
    /\ posted' = posted \cup {<<imageBuffer, RootForIndexer(imageBuffer)>>}
    /\ \/ \E contentHash \in 0..(DigestSpace - 1) :
            /\ data' = contentHash
            /\ trace' = Set(Bump(trace, "posts"), "postOk", TRUE)
            /\ pc' = "estimateGas"
            /\ UNCHANGED <<imageBuffer, gasLimit, gasEstimate, tx>>
       \/ /\ trace' = Set(Bump(trace, "posts"), "fault", TRUE)
          /\ pc' = "catch"
          /\ DropLocals
    /\ UNCHANGED <<cfgVars, exitCode, i, countVars, tempFilePath, disk, preflight, summary>>

\* Faulty variant: the division comes first.
GasLimitOf_DivideFirst(estimate) == (estimate \div 10) * 15

\* gasLimit = (BigInt(gasEstimate) * 15n) / 10n: BigInt division truncates.
GasLimitOf(estimate) == (estimate * 15) \div 10

\* manual: await provider.estimateGas(...) in its own try/catch.
EstimateGas ==
    /\ pc = "estimateGas"
    /\ \/ \E estimate \in 0..MaxGasEstimate :
            /\ gasEstimate' = estimate
            /\ gasLimit' = GasLimitOf(estimate)
       \/ /\ gasEstimate' = -1
          /\ gasLimit' = FallbackGasLimit
    /\ pc' = "send"
    /\ UNCHANGED <<cfgVars, exitCode, i, countVars, tempFilePath, imageBuffer, data, tx,
                   disk, histVars>>

\* manual: await wallet.sendTransaction(txParams).
SendTransaction ==
    /\ pc = "send"
    /\ \/ /\ tx' = "tx"
          /\ trace' = Bump(Bump(trace, "sendCalls"), "sends")
          /\ pc' = "wait"
          /\ UNCHANGED <<imageBuffer, data, gasLimit, gasEstimate>>
       \/ /\ trace' = Set(Bump(trace, "sendCalls"), "fault", TRUE)
          /\ pc' = "catch"
          /\ DropLocals
    /\ UNCHANGED <<cfgVars, exitCode, i, countVars, tempFilePath, disk, preflight,
                   posted, summary>>

\* Faulty variant: the status is not looked at.
ReceiptFailed_Never(status) == FALSE

\* if (receipt.status !== 1) throw ...
ReceiptFailed(status) == status # StatusSuccess

\* await tx.wait() and the status check; the function returns the receipt.
WaitForReceipt ==
    /\ pc = "wait"
    /\ \/ /\ trace' = Set(Bump(trace, "awaits"), "fault", TRUE)
          /\ pc' = "catch"
       \/ \E status \in Statuses :
            /\ trace' = Set(Bump(trace, "awaits"), "status", status)
            /\ pc' = IF ReceiptFailed(status) THEN "catch" ELSE "success"
    /\ DropLocals
    /\ UNCHANGED <<cfgVars, exitCode, i, countVars, tempFilePath, disk, preflight,
                   posted, summary>>

\* successful++ after the upload function returned.
CompleteIteration ==
    /\ pc = "success"
    /\ successful' = successful + 1
    /\ trace' = Set(trace, "outcome", "success")
    /\ pc' = AfterTry(variant)
    /\ UNCHANGED <<cfgVars, exitCode, i, failed, localVars, disk, preflight, posted, summary>>

\* Faulty variant: the loop body has no catch; the error reaches main's handler.
CatchIteration_Rethrow ==
    /\ pc = "catch"
    /\ pc' = "topCatch"
    /\ UNCHANGED <<cfgVars, exitCode, i, countVars, localVars, disk, histVars>>

\* catch (error) { failed++; ... } of the loop body.
CatchIteration ==
    /\ pc = "catch"
    /\ failed' = failed + 1
    /\ trace' = Set(trace, "outcome", "failure")
    /\ pc' = AfterTry(variant)
    /\ UNCHANGED <<cfgVars, exitCode, i, successful, localVars, disk, preflight, posted,
                   summary>>

\* Faulty variant: the finally block unlinks without looking at the path.
NeedsCleanup_Always(path) == TRUE

\* if (tempFilePath)
NeedsCleanup(path) == Len(path) > 0

\* Faulty variant: unlink is not wrapped; its error leaves the loop.
CleanupFailed_Escapes ==
    /\ pc' = "topCatch"
    /\ UNCHANGED countVars

\* catch (cleanupError) { logger.warn(...) }: the loop goes on.
CleanupFailed ==
    /\ pc' = "delayTest"
    /\ UNCHANGED countVars

\* sdk: finally { if (tempFilePath) { try { await fs.unlink(tempFilePath) } ... } }.
\* unlink can only succeed on a file that exists.
CleanupTempFile ==
    /\ pc = "finally"
    /\ \/ /\ NeedsCleanup(tempFilePath)
          /\ \/ /\ tempFilePath \in disk
                /\ disk' = disk \ {tempFilePath}
                /\ trace' = Bump(trace, "unlinks")
                /\ pc' = "delayTest"
                /\ UNCHANGED countVars
             \/ /\ disk' = disk
                /\ trace' = Set(Bump(trace, "unlinks"), "unlinkFailed", TRUE)
                /\ CleanupFailed
       \/ /\ ~NeedsCleanup(tempFilePath)
          /\ pc' = "delayTest"
          /\ UNCHANGED <<disk, trace, countVars>>
    /\ UNCHANGED <<cfgVars, exitCode, i, localVars, preflight, posted, summary>>

\* Faulty variant: the wait also follows the last iteration.
NeedsWait_Inclusive(k, n) == k <= n

\* if (i < uploadsCount)
NeedsWait(k, n) == k < n

\* The inter-iteration wait, await setTimeout(delayMilliseconds), then i++.
NextIteration ==
    /\ pc = "delayTest"
    /\ trace' = IF NeedsWait(i, uploadsCount)
                THEN Set(Bump(trace, "waits"), "waitMs", delayMilliseconds)
                ELSE trace
    /\ i' = i + 1
    /\ pc' = "loopTest"
    /\ UNCHANGED <<cfgVars, exitCode, countVars, localVars, disk, preflight, posted, summary>>

\* Faulty variant: the exit code reports failed iterations.
ReportSummary_FailExit ==
    /\ pc = "summary"
    /\ summary' = [reported |-> TRUE, total |-> uploadsCount,
                   successful |-> successful, failed |-> failed]
    /\ exitCode' = IF failed > 0 THEN 1 ELSE 0
    /\ pc' = "exited"
    /\ UNCHANGED <<cfgVars, i, countVars, localVars, disk, preflight, trace, posted>>

\* The summary; main returns and the process ends with code 0.
ReportSummary ==
    /\ pc = "summary"
    /\ summary' = [reported |-> TRUE, total |-> uploadsCount,
                   successful |-> successful, failed |-> failed]
    /\ exitCode' = 0
    /\ pc' = "exited"
    /\ UNCHANGED <<cfgVars, i, countVars, localVars, disk, preflight, trace, posted>>

\* catch (error) { logger.critical(...); process.exit(1); } of main.
TopLevelCatch ==
    /\ pc = "topCatch"
    /\ exitCode' = 1
    /\ pc' = "exited"
    /\ UNCHANGED <<cfgVars, i, countVars, localVars, disk, histVars>>

\* ------------------------------------------------------------ specifications
\* The steps of the manual variant's main.
ManualMain ==
    \/ GetBalance
    \/ LoopTest
    \/ FetchRandomImage
    \/ PostSegment
    \/ EstimateGas
    \/ SendTransaction
    \/ WaitForReceipt
    \/ CompleteIteration
    \/ CatchIteration
    \/ NextIteration
    \/ ReportSummary
    \/ TopLevelCatch

\* The steps only the sdk variant's main takes.
SdkMain ==
    \/ GetNetwork
    \/ WriteTempFile
    \/ SdkUpload
    \/ CleanupTempFile

\* The whole process, from its first statement.
Next ==
    \/ ValidateConfig
    \/ SetupGeneratedDir
    \/ ManualMain

Spec == Init /\ [][Next]_vars

\* main() of either variant, from its call.
NextMain ==
    \/ ManualMain
    \/ SdkMain

SpecMain == InitMain /\ [][NextMain]_vars

\* ------------------------------------------------------------ vocabulary
\* Iteration k has run its try/catch: it is counted.
Counted(k) == k < i \/ (k = i /\ pc \in {"finally", "delayTest"})

\* Iteration k has left its finally block: the wait or the next iteration follows.
Cleaned(k) == k < i \/ (k = i /\ pc = "delayTest")

\* The iterations in which an external call failed or the receipt was not a success.
FaultyIterations ==
    {k \in Iterations : trace[k].fault \/ trace[k].status \notin {-1, StatusSuccess}}

AttemptedIterations == {k \in Iterations : trace[k].attempted}

PreflightPassed == preflight.balance = "ok"

PreflightFailed == preflight.network = "failed" \/ preflight.balance = "failed"

\* PRIVATE_KEY, RPC_URL or INDEXER_URL is absent (or empty).
RequiredAbsent ==
    \E name \in {"PRIVATE_KEY", "RPC_URL", "INDEXER_URL"} :
        ~env[name].defined \/ env[name].text = <<>>

\* A value the script requires is absent (or empty).
ConfigurationIncomplete ==
    \/ RequiredAbsent
    \/ (variant = "manual" /\ ~env.CONTRACT_ADDRESS.defined)
    \/ (variant = "manual" /\ env.CONTRACT_ADDRESS.text = <<>>)

\* No network call has been made and no iteration has started.
NothingDone ==
    /\ preflight = NoPreflight
    /\ trace = [k \in Iterations |-> NoTrace]
    /\ posted = {}
    /\ disk = {}
    /\ ~summary.reported

\* ------------------------------------------------------------------ claims
\* C1: when an external call fails in exactly one iteration k of a batch of
\* N >= 1, the batch still attempts every iteration 1..N and the summary reports
\* N-1 successes and 1 failure.
C1_FailureIsolation ==
    (pc = "exited" /\ PreflightPassed /\ uploadsCount >= 1
        /\ Cardinality(FaultyIterations) = 1)
    => /\ summary.reported
       /\ AttemptedIterations = 1..uploadsCount
       /\ summary.successful = uploadsCount - 1
       /\ summary.failed = 1

C1_Witness ==
    /\ pc = "exited"
    /\ uploadsCount = 3
    /\ FaultyIterations = {2}
    /\ trace[2].fault
    /\ trace[3].attempted
    /\ summary.successful = 2
    /\ summary.failed = 1

\* C2: an iteration whose receipt status is not 1 is counted in failed, never in
\* successful; successful counts only iterations whose receipt status was 1.
C2_BadReceiptIsFailure ==
    /\ \A k \in Iterations :
        /\ trace[k].outcome = "success" => trace[k].status = StatusSuccess
        /\ (Counted(k) /\ trace[k].status \notin {-1, StatusSuccess})
            => trace[k].outcome = "failure"
    /\ successful = Cardinality({k \in Iterations : trace[k].outcome = "success"})
    /\ failed = Cardinality({k \in Iterations : trace[k].outcome = "failure"})

C2_Witness ==
    /\ pc = "exited"
    /\ \E k \in Iterations : trace[k].status = 0 /\ trace[k].outcome = "failure"
    /\ \E k \in Iterations : trace[k].status = 1 /\ trace[k].outcome = "success"
    /\ summary.failed = 1

\* C3 as stated: once an sdk iteration has left its finally block, unlink was
\* called exactly once if the iteration created a temp file and not at all if
\* it created none.
C3_CleanupIffCreated ==
    \A k \in Iterations :
        (variant = "sdk" /\ Cleaned(k))
        => trace[k].unlinks = IF trace[k].created THEN 1 ELSE 0

\* C3 amended: unlink is called exactly once in every sdk iteration whose image
\* fetch succeeded (a temp path was assigned), whether or not the write created
\* the file, before the wait or the next iteration; never twice; and not at all
\* in an iteration whose image fetch failed.
C3_CleanupIffAssigned ==
    \A k \in Iterations :
        /\ trace[k].unlinks <= 1
        /\ trace[k].created => trace[k].assigned
        /\ trace[k].unlinks = 1 => trace[k].assigned
        /\ (variant = "sdk" /\ Cleaned(k))
            => trace[k].unlinks = IF trace[k].assigned THEN 1 ELSE 0

C3_Witness ==
    /\ variant = "sdk"
    /\ pc = "exited"
    /\ \E k \in Iterations :
        trace[k].created /\ trace[k].outcome = "failure" /\ trace[k].unlinks = 1
    /\ \E k \in Iterations :
        trace[k].created /\ trace[k].outcome = "success" /\ trace[k].unlinks = 1
    /\ \E k \in Iterations :
        trace[k].attempted /\ ~trace[k].assigned /\ trace[k].unlinks = 0

\* C4: with PRIVATE_KEY, RPC_URL or INDEXER_URL absent the process does nothing
\* but exit with code 1: no network call, no iteration.
C4_MissingConfigExits ==
    RequiredAbsent
    => /\ pc \in {"start", "exited"}
       /\ pc = "exited" => exitCode = 1
       /\ exitCode # 0
       /\ NothingDone

C4_Witness ==
    /\ pc = "exited"
    /\ exitCode = 1
    /\ env.PRIVATE_KEY = Str(<<"k">>)
    /\ env.RPC_URL = Str(<<"k">>)
    /\ env.INDEXER_URL = Undefined
    /\ NothingDone

\* C5: the inter-iteration wait happens exactly once after each iteration
\* i < N and never after iteration N, whether the iteration succeeded or failed.
C5_WaitBetweenIterations ==
    /\ \A k \in Iterations :
        /\ trace[k].waits <= 1
        /\ k < i => trace[k].waits = IF k < uploadsCount THEN 1 ELSE 0
        /\ k >= i => trace[k].waits = 0
    /\ (summary.reported /\ uploadsCount >= 1)
        => Cardinality({k \in Iterations : trace[k].waits = 1}) = uploadsCount - 1

C5_Witness ==
    /\ variant = "manual"
    /\ pc = "exited"
    /\ uploadsCount = 2
    /\ trace[1].posts = 1 /\ trace[1].fault /\ trace[1].outcome = "failure"
    /\ trace[1].waits = 1
    /\ trace[2].outcome = "success"
    /\ trace[2].waits = 0

\* C6: a failed pre-flight call (getNetwork, getBalance) is fatal: exit code 1,
\* no iteration attempted, no summary; nothing else reaches main's handler.
C6_PreflightFailureIsFatal ==
    /\ PreflightFailed
        => /\ pc \in {"topCatch", "exited"}
           /\ pc = "exited" => exitCode = 1
           /\ exitCode # 0
           /\ AttemptedIterations = {}
           /\ trace = [k \in Iterations |-> NoTrace]
           /\ posted = {}
           /\ ~summary.reported
    /\ pc = "topCatch" => PreflightFailed

C6_Witness ==
    /\ pc = "exited"
    /\ exitCode = 1
    /\ preflight.network = "ok"
    /\ preflight.balance = "failed"
    /\ ~summary.reported

\* C7: with the configuration present and the pre-flight passed the process
\* ends with the summary and exit code 0, however many iterations failed; exit
\* code 1 comes only from missing configuration or from an error outside the
\* iterations (before any iteration was attempted).
C7_ExitCodes ==
    /\ (pc = "exited" /\ PreflightPassed)
        => exitCode = 0 /\ summary.reported /\ summary.total = uploadsCount
    /\ exitCode = 1
        => /\ AttemptedIterations = {}
           /\ \/ ConfigurationIncomplete
              \/ PreflightFailed
              \/ (variant = "sdk" /\ preflight = NoPreflight)
    /\ exitCode \in {-1, 0, 1}
    /\ pc = "exited" <=> exitCode # -1

C7_Witness ==
    /\ pc = "exited"
    /\ exitCode = 0
    /\ uploadsCount = 3
    /\ summary.failed = 3
    /\ summary.successful = 0

\* C8: a failed unlink changes no outcome and aborts nothing: the counters stay
\* those of the iterations' outcomes, an uploaded iteration stays a success,
\* and the loop goes on to the wait / next iteration and the summary.
C8_CleanupFailureIsHarmless ==
    /\ successful = Cardinality({k \in Iterations : trace[k].outcome = "success"})
    /\ failed = Cardinality({k \in Iterations : trace[k].outcome = "failure"})
    /\ \A k \in Iterations :
        trace[k].unlinkFailed
        => /\ Cleaned(k)
           /\ pc # "topCatch"
           /\ trace[k].outcome =
                IF trace[k].status = StatusSuccess THEN "success" ELSE "failure"
           /\ pc = "exited" => summary.reported /\ exitCode = 0
           /\ (pc = "exited" /\ k < uploadsCount) => trace[k + 1].attempted

C8_Witness ==
    /\ pc = "exited"
    /\ uploadsCount = 2
    /\ trace[1].unlinkFailed /\ trace[1].outcome = "success" /\ trace[1].waits = 1
    /\ trace[2].attempted
    /\ summary.successful = 1 /\ summary.failed = 1

\* C9: when indexer.upload returns an error value, the transaction returned with
\* it is never awaited, the iteration is counted as a failure like a thrown
\* error, and the temp file is still unlinked.
C9_SdkErrorChecked ==
    \A k \in Iterations :
        trace[k].sdkErr
        => /\ trace[k].awaits = 0
           /\ trace[k].status = -1
           /\ trace[k].outcome # "success"
           /\ Counted(k) => trace[k].outcome = "failure"
           /\ Cleaned(k) => trace[k].unlinks = 1

C9_Witness ==
    /\ pc = "exited"
    /\ \E k \in Iterations :
        /\ trace[k].sdkErr
        /\ trace[k].sends = 1
        /\ trace[k].outcome = "failure"
        /\ trace[k].unlinks = 1
    /\ summary.failed = 1

\* C10: the root POSTed to the indexer depends on the payload bytes alone:
\* whatever the iteration and the counters, equal payloads are sent with equal
\* roots, each '0x' followed by the hex digits of the digest.
C10_RootDeterministic ==
    /\ \A a, b \in posted : a[1] = b[1] => a[2] = b[2]
    /\ \A a \in posted : Len(a[2]) = 2 + HexLen /\ SubSeq(a[2], 1, 2) = <<"0", "x">>

C10_Witness ==
    /\ variant = "manual"
    /\ Cardinality(posted) = 1
    /\ trace[1].posts = 1
    /\ trace[2].posts = 1
    /\ trace[3].posts = 1
    /\ failed = 1
    /\ successful = 2

\* The content-hash field of the call data, written as the root is: '0x' + hex.
ContentHashHex(h) == <<"0", "x">> \o DigestHex(h)

\* C11: the content-hash field of the transaction an iteration has sent is the
\* root that iteration POSTed to the indexer for its payload.
C11_TxReferencesRoot ==
    (variant = "manual" /\ pc = "wait")
    => <<imageBuffer, ContentHashHex(data)>> \in posted

\* C12 as stated: a manual iteration makes at most one POST and broadcasts at
\* most one transaction, exactly one when its fetch and its POST succeeded and
\* none when either failed.
C12_OneTxPerPostedIteration ==
    \A k \in Iterations :
        /\ trace[k].posts <= 1
        /\ trace[k].sends <= 1
        /\ (variant = "manual" /\ Counted(k))
            => trace[k].sends = IF trace[k].fetched /\ trace[k].postOk THEN 1 ELSE 0

\* C12 amended: at most one POST and one wallet.sendTransaction call per manual
\* iteration, no retry; the call is made exactly when the fetch and the POST
\* succeeded, and it broadcasts one transaction unless the call itself throws;
\* the confirmation is awaited once, only on a broadcast transaction, and the
\* broadcast stands whatever the iteration's outcome.
C12_OneSendCallPerPostedIteration ==
    \A k \in Iterations :
        /\ trace[k].posts <= 1
        /\ trace[k].sendCalls <= 1
        /\ trace[k].sends <= trace[k].sendCalls
        /\ trace[k].awaits <= trace[k].sends
        /\ trace[k].postOk => trace[k].fetched /\ trace[k].posts = 1
        /\ trace[k].outcome = "success" => trace[k].sends = 1
        /\ (variant = "manual" /\ Counted(k))
            => /\ trace[k].posts = IF trace[k].fetched THEN 1 ELSE 0
               /\ trace[k].sendCalls =
                    IF trace[k].fetched /\ trace[k].postOk THEN 1 ELSE 0
               /\ trace[k].awaits = trace[k].sends

C12_Witness ==
    /\ variant = "manual"
    /\ pc = "exited"
    /\ trace[1].sends = 1 /\ trace[1].status = 0 /\ trace[1].outcome = "failure"
    /\ trace[2].postOk /\ trace[2].sendCalls = 1 /\ trace[2].sends = 0
    /\ trace[3].posts = 1 /\ ~trace[3].postOk /\ trace[3].sendCalls = 0

\* The iteration whose body the script is in, if any.
InProgress == {k \in Iterations : k = i /\ trace[k].attempted /\ ~Cleaned(k)}

\* C13: iterations run one after the other: when iteration k+1 starts its
\* fetch, every earlier iteration has been counted (success or failure), has
\* unlinked its temp file and has had its wait; the external calls in progress
\* belong to one iteration at most, the highest attempted.
C13_Sequential ==
    /\ Cardinality(InProgress) <= 1
    /\ \A k \in Iterations :
        /\ trace[k].attempted => k <= i
        /\ (trace[k].attempted /\ k < i)
            => /\ trace[k].outcome # "none"
               /\ trace[k].assigned => trace[k].unlinks = 1
               /\ k < uploadsCount => trace[k].waits = 1
        /\ ~trace[k].attempted => trace[k] = NoTrace
    /\ successful + failed = Cardinality({k \in Iterations : trace[k].outcome # "none"})

C13_Witness ==
    /\ variant = "sdk"
    /\ i = 3
    /\ pc = "sdkUpload"
    /\ trace[1].outcome = "success" /\ trace[1].unlinks = 1
    /\ trace[2].outcome = "failure" /\ trace[2].unlinks = 1
    /\ InProgress = {3}

\* C14: at the summary the reported total is the number of iterations attempted
\* and the sum of the two counters, whatever UPLOADS_TO_RUN holds.
C14_TotalIsAttempted ==
    summary.reported
    => /\ summary.total = Cardinality(AttemptedIterations)
       /\ summary.total = summary.successful + summary.failed

\* UPLOADS_TO_RUN / DELAY_MS is set to the decimal text of an integer >= 0.
ConfiguredNat(v) == v.defined /\ ~ParseInt(v).nan /\ ParseInt(v).val >= 0

\* C15: when UPLOADS_TO_RUN is a non-negative integer n, exactly the iterations
\* 1..n are attempted (none for 0).
C15_AttemptsEqualConfigured ==
    (summary.reported /\ ConfiguredNat(env.UPLOADS_TO_RUN))
    => AttemptedIterations = 1..ParseInt(env.UPLOADS_TO_RUN).val

\* C16: when DELAY_MS is a non-negative integer d, every inter-iteration wait
\* lasts d milliseconds (0 included).
C16_DelayEqualsConfigured ==
    \A k \in Iterations :
        (trace[k].waits = 1 /\ ConfiguredNat(env.DELAY_MS))
        => trace[k].waitMs = ParseInt(env.DELAY_MS).val

\* C17: a transaction is sent with gasLimit = floor(g * 15 / 10) >= g when
\* estimateGas returned g, and with 300000 when it threw; a failed estimation is
\* no failure of the iteration: the send follows, and the loop's catch is entered
\* only after a failed fetch, POST, send or wait or a receipt that is no success.
C17_GasLimit ==
    /\ pc \in {"send", "wait"} /\ variant = "manual"
        => /\ gasEstimate >= 0
                => /\ gasLimit * 10 <= gasEstimate * 15
                   /\ gasEstimate * 15 < (gasLimit + 1) * 10
                   /\ gasLimit >= gasEstimate
           /\ gasEstimate = -1 => gasLimit = FallbackGasLimit
           /\ gasEstimate >= -1
           /\ ~trace[i].fault /\ trace[i].outcome = "none"
    /\ pc = "catch"
        => trace[i].fault \/ trace[i].status \notin {-1, StatusSuccess}
    /\ pc \notin {"send", "wait"} => gasLimit = -1 /\ gasEstimate = -1

C17_Witness ==
    /\ pc = "wait"
    /\ variant = "manual"
    /\ trace[i].sends = 1
    /\ gasEstimate = -1
    /\ gasLimit = FallbackGasLimit

\* C18: a run that passed the pre-flight reaches the summary after exactly N
\* iterations, each counted once.
C18_ExactlyNIterations ==
    summary.reported
    => /\ Cardinality(AttemptedIterations) = uploadsCount
       /\ summary.successful + summary.failed = uploadsCount

\* main() with every awaited call returning or throwing in the end.
SpecMainFair == SpecMain /\ WF_vars(NextMain)

\* Under SpecMainFair every run ends, and one that passed the pre-flight ends
\* with the summary.
Terminates == <>(pc = "exited")

SummaryFollowsPreflight == PreflightPassed ~> summary.reported

\* The loop counter moves by single steps.
CounterStepsByOne == [][i' = i \/ i' = i + 1]_vars

\* C19: with the configuration complete, the sdk script gets past its top-level
\* statements: it does not end before main's pre-flight has run.
C19_StartupReachesMain ==
    (variant = "sdk" /\ ~ConfigurationIncomplete /\ pc = "exited")
    => preflight.network # "none"

====
